---- MODULE Spec2Model ----
(***************************************************************************)
(* Audit engine of the fiscal agent (agente_fiscal_langchain.py): the      *)
(* identity validators, the monetary normaliser, the audit pass of         *)
(* auditar_e_salvar_dados_fiscais and its persistence in db_documentos.json.*)
(*                                                                         *)
(* Python strings are tuples of one-character strings, so that stripping,  *)
(* replacing and parsing are computed character by character.  Decimal     *)
(* values are integers scaled by 10^DecimalPlaces, exact for every literal  *)
(* with at most DecimalPlaces fractional digits (all literals used here).  *)
(***************************************************************************)
EXTENDS Integers, Sequences, FiniteSets, TLC

(* ------------------------------ bounds -------------------------------- *)

\* Longest item list of an input record.
MaxItems == 2

\* Fractional digits kept by the scaled-integer image of Decimal.
DecimalPlaces == 3

\* Number of records already in db_documentos.json before the invocations.
MaxOldRecords == 1

\* Number of invocations started after an earlier invocation ended.
MaxReinvocacoes == 1

(* ------------------------------ strings ------------------------------- *)

DigitChars == {"0", "1", "2", "3", "4", "5", "6", "7", "8", "9"}

\* Python's None, kept apart from every string (its one element is no character).
None == <<"None">>

\* bool(v) of a str-or-None value.
Truthy(v) == v /= None /\ v /= <<>>

\* int(d) of one decimal digit.
int(d) ==
    CASE d = "0" -> 0 [] d = "1" -> 1 [] d = "2" -> 2 [] d = "3" -> 3
      [] d = "4" -> 4 [] d = "5" -> 5 [] d = "6" -> 6 [] d = "7" -> 7
      [] d = "8" -> 8 [] d = "9" -> 9

\* ''.join(filter(str.isdigit, s))
only_digits(s) == SelectSeq(s, LAMBDA c : c \in DigitChars)

\* c in s
Contains(s, c) == \E i \in 1..Len(s) : s[i] = c

\* s.replace(c, '')
Remove(s, c) == SelectSeq(s, LAMBDA x : x /= c)

\* s.replace(c, r) for single characters
Replace(s, c, r) == [i \in 1..Len(s) |-> IF s[i] = c THEN r ELSE s[i]]

\* s.strip(): s from its first to its last character that is no blank.
strip(s) ==
    LET kept == {i \in 1..Len(s) : s[i] /= " "}
    IN IF kept = {} THEN <<>>
       ELSE SubSeq(s, CHOOSE i \in kept : \A j \in kept : i <= j,
                      CHOOSE i \in kept : \A j \in kept : i >= j)

Min(a, b) == IF a < b THEN a ELSE b

Abs(x) == IF x < 0 THEN -x ELSE x

Pow10(n) == LET P[k \in 0..n] == IF k = 0 THEN 1 ELSE 10 * P[k - 1] IN P[n]

(* ------------------------- identity validators ------------------------ *)

pesos1 == <<5, 4, 3, 2, 9, 8, 7, 6, 5, 4, 3, 2>>

pesos2 == <<6, 5, 4, 3, 2, 9, 8, 7, 6, 5, 4, 3, 2>>

\* sum(int(d) * p for d, p in zip(digits, pesos)): zip stops at the shorter one.
soma_pesos(digits, pesos) ==
    LET n == Min(Len(digits), Len(pesos))
        S[k \in 0..n] == IF k = 0 THEN 0 ELSE S[k - 1] + int(digits[k]) * pesos[k]
    IN S[n]

\* A plausible slip: the remainders 0 and 1 are not mapped to check digit 0.
dv_mod11_sem_zero(resto) == 11 - resto

\* dv = 0 if resto < 2 else 11 - resto
dv_mod11(resto) == IF resto < 2 THEN 0 ELSE 11 - resto

validar_cnpj(cnpj_str) ==
    LET cnpj == only_digits(cnpj_str) IN
    IF Len(cnpj) /= 14 \/ Cardinality({cnpj[i] : i \in 1..Len(cnpj)}) = 1
    THEN FALSE
    ELSE LET dv1 == dv_mod11(soma_pesos(SubSeq(cnpj, 1, 12), pesos1) % 11)
             dv2 == dv_mod11(soma_pesos(SubSeq(cnpj, 1, 13), pesos2) % 11)
         IN IF dv1 /= int(cnpj[13]) THEN FALSE
            ELSE IF dv2 /= int(cnpj[14]) THEN FALSE
            ELSE TRUE

\* sum(int(cpf[i]) * (top - i) for i in range(n)), with 0-based i = k - 1
soma_cpf(cpf, top, n) ==
    LET S[k \in 0..n] == IF k = 0 THEN 0 ELSE S[k - 1] + int(cpf[k]) * (top - (k - 1))
    IN S[n]

\* resto = (soma * 10) % 11; if resto == 10: resto = 0
resto_cpf(soma) == LET r == (soma * 10) % 11 IN IF r = 10 THEN 0 ELSE r

validar_cpf(cpf_str) ==
    LET cpf == only_digits(cpf_str) IN
    IF Len(cpf) /= 11 \/ Cardinality({cpf[i] : i \in 1..Len(cpf)}) = 1
    THEN FALSE
    ELSE IF resto_cpf(soma_cpf(cpf, 10, 9)) /= int(cpf[10]) THEN FALSE
    ELSE IF resto_cpf(soma_cpf(cpf, 11, 10)) /= int(cpf[11]) THEN FALSE
    ELSE TRUE

(* -------------------------- monetary normaliser ----------------------- *)

\* One unit of the scaled-integer image of Decimal: Decimal('1') is Scale.
Scale == Pow10(DecimalPlaces)

\* Decimal('0.01')
Tolerance == Scale \div 100

AllDigits(s) == \A i \in 1..Len(s) : s[i] \in DigitChars

\* The number a string of digits writes (0 for the empty string).
digits_value(s) ==
    LET V[k \in 0..Len(s)] == IF k = 0 THEN 0 ELSE 10 * V[k - 1] + int(s[k])
    IN V[Len(s)]

\* Position of the first c in s, or 0.
index_of(s, c) ==
    IF ~Contains(s, c) THEN 0
    ELSE CHOOSE i \in 1..Len(s) : s[i] = c /\ \A j \in 1..(i - 1) : s[j] /= c

\* Decimal(s) for the literals [sign] digits [. digits] and [sign] . digits;
\* every other text over the alphabet used here raises InvalidOperation.
\* The result is [ok |-> FALSE] for InvalidOperation, else the scaled value.
\* ip and fp are the digits before and after the point.
DecimalParts(ip, fp, negative) ==
    IF ~(AllDigits(ip) /\ AllDigits(fp) /\ Len(ip) + Len(fp) > 0 /\ Len(fp) <= DecimalPlaces)
    THEN [ok |-> FALSE, v |-> 0]
    ELSE [ok |-> TRUE,
          v |-> (IF negative THEN -1 ELSE 1)
                * (digits_value(ip) * Scale
                   + digits_value(fp) * Pow10(DecimalPlaces - Len(fp)))]

DecimalSplit(body, dot, negative) ==
    IF dot = 0 THEN DecimalParts(body, <<>>, negative)
    ELSE DecimalParts(SubSeq(body, 1, dot - 1), SubSeq(body, dot + 1, Len(body)), negative)

Decimal(s) ==
    IF s /= <<>> /\ Head(s) \in {"-", "+"}
    THEN DecimalSplit(Tail(s), index_of(Tail(s), "."), Head(s) = "-")
    ELSE DecimalSplit(s, index_of(s, "."), FALSE)

\* if ',' in value_str and '.' in value_str: value_str = value_str.replace('.', '')
sem_milhar(s) == IF Contains(s, ",") /\ Contains(s, ".") THEN Remove(s, ".") ELSE s

\* _to_decimal: [ok |-> FALSE] stands for the InvalidOperation it lets escape.
to_decimal(value_str) ==
    IF ~Truthy(value_str) THEN [ok |-> TRUE, v |-> 0]
    ELSE Decimal(Replace(sem_milhar(strip(value_str)), ",", "."))

\* Half-even rounding of q + r / Tolerance to an integer.
half_even(q, r) ==
    IF 2 * r > Tolerance \/ (2 * r = Tolerance /\ q % 2 = 1) THEN q + 1 ELSE q

\* f"{x:.2f}": the value in cents, rounded half-even as Decimal's format does.
format_2f(x) ==
    (IF x < 0 THEN -1 ELSE 1) * half_even(Abs(x) \div Tolerance, Abs(x) % Tolerance)

(* ------------------------- records and messages ----------------------- *)

\* d.get(k): the value under k, or None when the key is absent.
get(d, k) == IF k \in DOMAIN d THEN d[k] ELSE None

\* d.get(k, default)
get_or(d, k, default) == IF k \in DOMAIN d THEN d[k] ELSE default

\* One entry of the issues or warnings list: the f-string's template (text), the
\* item it is about (item, 0 for a document-level entry; codigo is the item's code
\* in the prefix "Item {i} ({codigo}) - ") and the values it interpolates.
Msg(text, i, codigo, arg, a, b) ==
    [text |-> text, item |-> i, codigo |-> codigo, arg |-> arg, a |-> a, b |-> b]

DocMsg(text, arg) == Msg(text, 0, <<>>, arg, 0, 0)

VALID_CFOP_CODES ==
    {
      <<"6", "1", "0", "2">>, <<"1", "1", "0", "1">>, <<"1", "1", "0", "2">>,
      <<"1", "2", "0", "1">>, <<"1", "2", "0", "2">>, <<"1", "4", "0", "1">>,
      <<"1", "4", "0", "3">>, <<"1", "9", "0", "4">>, <<"1", "9", "1", "6">>,
      <<"2", "1", "0", "1">>, <<"2", "1", "0", "2">>, <<"2", "2", "0", "1">>,
      <<"2", "2", "0", "2">>, <<"2", "4", "0", "1">>, <<"2", "4", "0", "3">>,
      <<"2", "9", "0", "4">>, <<"2", "9", "1", "6">>, <<"3", "1", "0", "1">>,
      <<"3", "1", "0", "2">>, <<"3", "2", "0", "1">>, <<"3", "2", "0", "2">>,
      <<"5", "1", "0", "1">>, <<"5", "1", "0", "2">>, <<"5", "1", "1", "6">>,
      <<"5", "1", "1", "7">>, <<"5", "4", "0", "1">>, <<"5", "4", "0", "3">>,
      <<"5", "4", "0", "5">>, <<"5", "6", "5", "6">>, <<"5", "9", "0", "4">>,
      <<"5", "9", "2", "9">>, <<"6", "1", "0", "1">>, <<"6", "1", "0", "8">>,
      <<"6", "4", "0", "1">>, <<"6", "4", "0", "3">>, <<"6", "4", "0", "4">>,
      <<"6", "6", "5", "6">>, <<"6", "9", "0", "4">>, <<"6", "9", "2", "9">>,
      <<"7", "1", "0", "1">>, <<"7", "1", "0", "2">>, <<"7", "1", "2", "7">>
    }

(* --------------------------- reference table -------------------------- *)

NCM_5 == <<"8", "4", "7", "1", "3", "0", "1", "2">>

NCM_NT == <<"0", "1", "0", "1", "2", "1", "0", "0">>

NCM_DESCONHECIDO == <<"9", "9", "9", "9", "9", "9", "9", "9">>

\* The TIPI table (tipi/tipi.db): classification code -> IPI rate as the table
\* stores it, a number or the text NT (not taxed).
TIPI == (NCM_5 :> <<"5">>) @@ (NCM_NT :> <<"N", "T">>)

\* consultar_ncm(ncm, db_file): the matched row, or a falsy result when no row
\* has exactly this code.
consultar_ncm(ncm) ==
    IF ncm \in DOMAIN TIPI
    THEN [found |-> TRUE, ncm_encontrado |-> ncm, aliquota |-> TIPI[ncm]]
    ELSE [found |-> FALSE, ncm_encontrado |-> <<>>, aliquota |-> <<>>]

(* ------------------------------ OCR path ------------------------------ *)

\* if cond: errors.append(m)
add_error(acc, cond, m) == IF cond THEN [acc EXCEPT !.errors = Append(@, m)] ELSE acc

\* if cond: warnings.append(m)
add_warning(acc, cond, m) == IF cond THEN [acc EXCEPT !.warnings = Append(@, m)] ELSE acc

\* Lines 77-80: the issuer.
emitente_ocr(emit, acc) ==
    IF ~Truthy(emit)
    THEN add_error(acc, TRUE, DocMsg("CNPJ do emitente nao informado.", <<>>))
    ELSE add_error(acc, ~validar_cnpj(emit), DocMsg("CNPJ do emitente e invalido.", emit))

\* Lines 81-87: the recipient, an organization ID when it has more than 11 digits.
destinatario_ocr(dest_doc, acc) ==
    IF ~Truthy(dest_doc)
    THEN add_warning(acc, TRUE, DocMsg("CPF/CNPJ do destinatario nao informado.", <<>>))
    ELSE IF Len(only_digits(dest_doc)) > 11
    THEN add_error(acc, ~validar_cnpj(dest_doc),
                   DocMsg("CNPJ do destinatario e invalido.", dest_doc))
    ELSE add_error(acc, ~validar_cpf(dest_doc),
                   DocMsg("CPF do destinatario e invalido.", dest_doc))

\* A plausible slip: a missing issue date reported as an error.
data_emissao_ocr_como_erro(dados, acc) ==
    add_error(acc, ~Truthy(get(dados, "data_emissao")),
              DocMsg("Data de emissao nao informada.", <<>>))

\* Line 89: if not dados.get('data_emissao'): warnings.append(...)
data_emissao_ocr(dados, acc) ==
    add_warning(acc, ~Truthy(get(dados, "data_emissao")),
                DocMsg("Data de emissao nao informada.", <<>>))

\* Line 88.
numero_ocr(dados, acc) ==
    add_error(acc, ~Truthy(get(dados, "numero")),
              DocMsg("Numero da nota nao informado.", <<>>))

\* Line 90.
valor_total_ocr(dados, acc) ==
    add_error(acc, ~Truthy(get(dados, "valor_total_nota")),
              DocMsg("Valor total da nota nao informado.", <<>>))

\* Line 91.
discriminacao_ocr(dados, acc) ==
    add_warning(acc, ~Truthy(get(dados, "discriminacao_servicos")),
                DocMsg("Discriminacao dos servicos nao informada.", <<>>))

_auditar_dados_nfs_ocr(dados) ==
    discriminacao_ocr(dados,
      valor_total_ocr(dados,
        data_emissao_ocr(dados,
          numero_ocr(dados,
            destinatario_ocr(get(dados, "destinatario_cnpj_cpf"),
              emitente_ocr(get(dados, "emitente_cnpj"),
                           [errors |-> <<>>, warnings |-> <<>>]))))))

(* --------------------------- structured path -------------------------- *)

\* The loop's accumulators: issues, warnings, ncm_info, calculated_sum, and the
\* codes asked of the reference table so far (lookups).
Acc0 ==
    [issues |-> <<>>, warnings |-> <<>>, ncm_info |-> <<>>, calculated_sum |-> 0,
     lookups |-> <<>>]

\* if cond: issues.append(m)
add_issue(acc, cond, m) == IF cond THEN [acc EXCEPT !.issues = Append(@, m)] ELSE acc

\* Line 117.
numero_doc(dados, acc) ==
    add_issue(acc, ~Truthy(get(dados, "numero")),
              DocMsg("Numero do documento nao informado.", <<>>))

\* Lines 118-119.
emitente_doc(dados, acc) ==
    add_issue(acc,
              ~Truthy(get(dados, "emitente_cnpj"))
                  \/ ~validar_cnpj(get_or(dados, "emitente_cnpj", <<>>)),
              DocMsg("CNPJ do emitente e invalido ou nao informado.",
                     get_or(dados, "emitente_cnpj", <<>>)))

\* A plausible slip: the empty list reported among the issues.
sem_itens_como_erro(items, acc) ==
    add_issue(acc, items = <<>>, DocMsg("O documento nao contem itens.", <<>>))

\* Lines 121-122.
sem_itens(items, acc) ==
    add_warning(acc, items = <<>>, DocMsg("O documento nao contem itens.", <<>>))

\* item.get('codigo', 'S/C')
codigo_de(item) == get_or(item, "codigo", <<"S", "/", "C">>)

\* Lines 140-148: the declared rate against the table's, both normalised.
auditar_ipi(pIPI_doc, pIPI_tipi, item, i, acc) ==
    IF ~pIPI_doc.ok \/ ~pIPI_tipi.ok
    THEN add_warning(acc, TRUE,
             Msg("Nao foi possivel validar a aliquota de IPI.", i, codigo_de(item), <<>>, 0, 0))
    ELSE add_warning(acc, pIPI_doc.v /= pIPI_tipi.v,
             Msg("Aliquota de IPI diverge da Tabela TIPI.", i, codigo_de(item), <<>>,
                 pIPI_doc.v, pIPI_tipi.v))

\* Lines 130-148: the answer of the reference table for the item's code.
auditar_resultado_ncm(resultado_ncm, item, i, acc) ==
    IF ~resultado_ncm.found
    THEN add_issue(acc, TRUE,
             Msg("NCM e invalido ou nao foi encontrado na Tabela TIPI.",
                 i, codigo_de(item), item["ncm"], 0, 0))
    ELSE IF get(item, "pIPI") = None
    THEN [acc EXCEPT !.ncm_info =
             Append(@, Msg("NCM encontrado", i, codigo_de(item), resultado_ncm.aliquota, 0, 0))]
    ELSE auditar_ipi(to_decimal(get(item, "pIPI")), to_decimal(resultado_ncm.aliquota),
             item, i,
             [acc EXCEPT !.ncm_info =
                 Append(@, Msg("NCM encontrado", i, codigo_de(item),
                               resultado_ncm.aliquota, 0, 0))])

\* Lines 126-148 for one item: the classification code and the declared IPI rate.
auditar_ncm(item, i, acc) ==
    IF ~Truthy(get(item, "ncm"))
    THEN add_issue(acc, TRUE, Msg("NCM nao informado.", i, codigo_de(item), <<>>, 0, 0))
    ELSE auditar_resultado_ncm(consultar_ncm(item["ncm"]), item, i,
                               [acc EXCEPT !.lookups = Append(@, item["ncm"])])

\* Lines 150-151 for one item: the transaction code.
auditar_cfop(item, i, acc) ==
    add_warning(acc,
                ~Truthy(get(item, "cfop")) \/ get(item, "cfop") \notin VALID_CFOP_CODES,
                Msg("CFOP nao consta na lista de codigos validos.",
                    i, codigo_de(item), get_or(item, "cfop", <<>>), 0, 0))

\* A plausible slip: calculated_sum = ... in place of calculated_sum += ...
soma_valor_sem_acumular(valor, item, i, acc) ==
    IF valor.ok
    THEN [acc EXCEPT !.calculated_sum = valor.v]
    ELSE add_issue(acc, TRUE,
             Msg("Contem valor total invalido.", i, codigo_de(item), <<>>, 0, 0))

\* Lines 153-156 with the line total normalised: added to calculated_sum, or reported.
soma_valor(valor, item, i, acc) ==
    IF valor.ok
    THEN [acc EXCEPT !.calculated_sum = @ + valor.v]
    ELSE add_issue(acc, TRUE,
             Msg("Contem valor total invalido.", i, codigo_de(item), <<>>, 0, 0))

\* Lines 153-156 for one item.
auditar_valor_total(item, i, acc) ==
    soma_valor(to_decimal(get_or(item, "valor_total", <<"0">>)), item, i, acc)

\* One pass of the body of the for loop (lines 125-156).
auditar_item(item, i, acc) ==
    auditar_valor_total(item, i, auditar_cfop(item, i, auditar_ncm(item, i, acc)))

\* A plausible slip: the loop stops at the first item that raised an issue.
auditar_itens_ate_erro(items, acc) ==
    LET A[k \in 0..Len(items)] ==
            IF k = 0 THEN acc
            ELSE IF Len(A[k - 1].issues) > Len(acc.issues) THEN A[k - 1]
            ELSE auditar_item(items[k], k, A[k - 1])
    IN A[Len(items)]

\* for i, item in enumerate(items, 1): ...  (lines 124-156): A[k] holds the
\* accumulators after the first k items.
auditar_itens(items, acc) ==
    LET A[k \in 0..Len(items)] ==
            IF k = 0 THEN acc ELSE auditar_item(items[k], k, A[k - 1])
    IN A[Len(items)]

\* A plausible slip: the tolerance taken as exclusive bound of the accepted range.
excede_tolerancia_inclusive(calculated_sum, doc_total) ==
    Abs(calculated_sum - doc_total) >= Tolerance

\* abs(calculated_sum - doc_total) > Decimal('0.01')
excede_tolerancia(calculated_sum, doc_total) ==
    Abs(calculated_sum - doc_total) > Tolerance

\* Lines 158-160 with the declared total normalised.  raised is TRUE when
\* _to_decimal(valor_total_nota), which no try block encloses (line 158), raises
\* InvalidOperation: the function is left by the exception.
reconciliar(doc_total, acc) ==
    [raised |-> ~doc_total.ok,
     acc |-> IF ~doc_total.ok THEN acc
             ELSE add_issue(acc, excede_tolerancia(acc.calculated_sum, doc_total.v),
                      Msg("A soma dos itens difere do valor total da nota.", 0, <<>>, <<>>,
                          format_2f(acc.calculated_sum), format_2f(doc_total.v)))]

\* Lines 116-160.
auditar_estruturado(dados) ==
    reconciliar(to_decimal(get_or(dados, "valor_total_nota", <<"0">>)),
        auditar_itens(get_or(dados, "itens", <<>>),
            sem_itens(get_or(dados, "itens", <<>>),
                emitente_doc(dados, numero_doc(dados, Acc0)))))

\* A plausible slip: warnings alone still reported as success.
status_de_sem_aviso(issues_, warnings_) ==
    IF issues_ /= <<>> THEN "error" ELSE "success"

\* status = 'error' if issues else ('warning' if warnings else 'success')
status_de(issues_, warnings_) ==
    IF issues_ /= <<>> THEN "error"
    ELSE IF warnings_ /= <<>> THEN "warning" ELSE "success"

\* issues, warnings = _auditar_dados_nfs_ocr(dados)  (line 114)
do_ocr(r) ==
    [raised |-> FALSE,
     acc |-> [Acc0 EXCEPT !.issues = r.errors, !.warnings = r.warnings]]

OCR_FORMATOS == {<<"o", "c", "r">>, <<"o", "c", "r", "_", "i", "a">>}

\* Lines 109-160: the audit of a record without the key 'erro'.
auditar(dados) ==
    IF get(dados, "formato") \in OCR_FORMATOS
    THEN do_ocr(_auditar_dados_nfs_ocr(dados))
    ELSE auditar_estruturado(dados)

(* ------------------------------- inputs ------------------------------- *)

\* A dict with string values: the keys of f whose value is not None.
MkDict(f) == [k \in {x \in DOMAIN f : f[x] /= None} |-> f[k]]

\* A dict with string values and, when has_itens, the list itens.
MkDados(f, has_itens, itens) ==
    [k \in {x \in DOMAIN f : f[x] /= None} \cup (IF has_itens THEN {"itens"} ELSE {})
        |-> IF k = "itens" THEN itens ELSE f[k]]

\* An item of the list itens.  pIPI stands for the value at the nested path
\* item['imposto']['IPI']['IPITrib']['pIPI'], None when any key of the path is absent.
Item(codigo, ncm, cfop, valor_total, pIPI) ==
    MkDict([codigo |-> codigo, ncm |-> ncm, cfop |-> cfop,
            valor_total |-> valor_total, pIPI |-> pIPI])

CFOP_OK == <<"5", "1", "0", "2">>

CFOP_FORA == <<"9", "9", "9", "9">>

V_50 == <<"5", "0", ".", "0", "0">>

ItemKinds ==
    { Item(<<"A">>, NCM_5, CFOP_OK, V_50, None),
      Item(<<"B">>, NCM_5, CFOP_OK, V_50, <<"5", ",", "0", "0">>),
      Item(<<"C">>, NCM_5, <<"6", "1", "0", "2">>, V_50, <<"1", "0">>),
      Item(<<"D">>, NCM_5, CFOP_OK, V_50, <<"a", "b", "c">>),
      Item(<<"E">>, NCM_NT, CFOP_OK, V_50, <<"0">>),
      Item(<<"F">>, NCM_DESCONHECIDO, CFOP_OK, V_50, <<"5">>),
      Item(None, None, None, None, None),
      Item(<<"G">>, NCM_5, CFOP_FORA, <<" ", "5", "0", ",", "0", "1", " ">>, None),
      Item(<<"I">>, NCM_5, CFOP_OK, <<"a", "b", "c">>, None),
      Item(<<"K">>, NCM_DESCONHECIDO, CFOP_FORA, <<"1", ",", "2", ",", "3">>, None) }

\* The item lists of at most n items.
ItemLists(n) == UNION {[1..k -> ItemKinds] : k \in 0..n}

CNPJ_OK == <<"1", "1", ".", "2", "2", "2", ".", "3", "3", "3", "/", "0", "0", "0", "1", "-", "8", "1">>

CNPJ_RUIM == <<"1", "1", "2", "2", "2", "3", "3", "3", "0", "0", "0", "1", "8", "2">>

CNPJ2_OK == <<"0", "4", "2", "5", "2", "0", "1", "1", "0", "0", "0", "1", "1", "0">>

CNPJ2_RUIM == <<"0", "4", "2", "5", "2", "0", "1", "1", "0", "0", "0", "1", "1", "1">>

CPF_OK == <<"5", "2", "9", ".", "9", "8", "2", ".", "2", "4", "7", "-", "2", "5">>

CPF_RUIM == <<"5", "2", "9", "9", "8", "2", "2", "4", "7", "2", "6">>

Numeros == {None, <<"4", "2">>}

Totais == {None, <<"5", "0", ".", "0", "0">>, <<"1", "0", "0", ".", "0", "0">>, <<"1", "0", "0", ",", "0", "1">>, <<"1", "0", "0", ".", "0", "2">>, <<"1", "0", "0", ".", "0", "1", "1">>, <<"a", "b", "c">>}

NoFields ==
    [formato |-> None, numero |-> None, emitente_cnpj |-> None,
     destinatario_cnpj_cpf |-> None, data_emissao |-> None, valor_total_nota |-> None,
     discriminacao_servicos |-> None, erro |-> None]

\* Records of the structured path, as extrair_dados_xml builds them (no formato).
StructuredRecords ==
    { MkDados([NoFields EXCEPT !.numero = n, !.emitente_cnpj = e, !.valor_total_nota = v],
              TRUE, its) :
        n \in Numeros, e \in {None, CNPJ_OK, CNPJ_RUIM}, v \in Totais,
        its \in ItemLists(MaxItems) }
    \cup { MkDados([NoFields EXCEPT !.numero = n, !.emitente_cnpj = CNPJ_OK,
                                    !.valor_total_nota = v], FALSE, <<>>) :
             n \in Numeros, v \in Totais }

\* Declared totals that normalise to zero or to the tolerance itself.
TotaisNulos == {<<"0", ",", "0", "0">>, <<"0", ".", "0", "1">>}

\* Structured records without items (the list empty or the key absent) whose
\* declared total is zero or one cent.
SemItensRecords ==
    { MkDados([NoFields EXCEPT !.numero = <<"4", "2">>, !.emitente_cnpj = CNPJ_OK,
                               !.valor_total_nota = v], h, <<>>) :
        v \in TotaisNulos, h \in BOOLEAN }

\* Records of the OCR path, as extrair_dados_pdf builds them.
OcrRecords ==
    { MkDados([NoFields EXCEPT !.formato = f, !.numero = n, !.emitente_cnpj = e,
                               !.destinatario_cnpj_cpf = d, !.data_emissao = dt,
                               !.valor_total_nota = v, !.discriminacao_servicos = s],
              FALSE, <<>>) :
        f \in {<<"o", "c", "r">>, <<"o", "c", "r", "_", "i", "a">>}, n \in Numeros, e \in {None, CNPJ_OK, CNPJ_RUIM},
        d \in {None, CPF_OK, CPF_RUIM, CNPJ2_OK, CNPJ2_RUIM},
        dt \in {None, <<"2", "0", "2", "4", "-", "0", "1", "-", "1", "5">>}, v \in {None, <<"1", "0", "0", ".", "0", "0">>},
        s \in {None, <<"s", "e", "r", "v", "i", "c", "o", "s">>} }

\* Records carrying the extraction-failure signal, alone (as the extractors return
\* it) or beside the fields of an otherwise auditable record.
ErroRecords ==
    { MkDados([NoFields EXCEPT !.erro = m], FALSE, <<>>) : m \in {<<"f", "a", "l", "h", "a">>, <<>>} }
    \cup { MkDados([NoFields EXCEPT !.erro = <<"f", "a", "l", "h", "a">>, !.numero = <<"4", "2">>,
                                    !.emitente_cnpj = e, !.valor_total_nota = v],
                   TRUE, its) :
             e \in {CNPJ_OK, CNPJ_RUIM}, v \in {<<"5", "0", ".", "0", "0">>, <<"a", "b", "c">>}, its \in ItemLists(1) }
    \cup { MkDados([NoFields EXCEPT !.erro = <<"f", "a", "l", "h", "a">>, !.formato = <<"o", "c", "r">>,
                                    !.emitente_cnpj = CNPJ_RUIM], FALSE, <<>>) }

\* Records that already carry the audit's own keys, as a record read back from
\* db_documentos.json and handed to the audit again does: here the keys of an
\* earlier audit that found nothing, beside fields of any validity.
ReauditRecords ==
    { [status_auditoria |-> "success", erros_auditoria |-> <<>>, avisos_auditoria |-> <<>>]
          @@ MkDados([NoFields EXCEPT !.numero = n, !.emitente_cnpj = e,
                                      !.valor_total_nota = V_50],
                     TRUE, <<Item(<<"A">>, NCM_5, c, V_50, None)>>) :
        n \in Numeros, e \in {CNPJ_OK, CNPJ_RUIM}, c \in {CFOP_OK, CFOP_FORA} }

\* What json.loads makes of dados_json: a dict, or JSONDecodeError (json_ok FALSE).
AuditInputs ==
    { [json_ok |-> TRUE, dados |-> d] :
        d \in StructuredRecords \cup SemItensRecords \cup OcrRecords \cup ErroRecords
                 \cup ReauditRecords }
    \cup { [json_ok |-> FALSE, dados |-> <<>>] }

(* -------------------------------- state ------------------------------- *)

\* The invocations of auditar_e_salvar_dados_fiscais that may be in progress.
Procs == {1, 2}

VARIABLES
    pc,              \* where each invocation stands
    entrada,         \* its argument, as json.loads reads it
    issues,          \* its local issues
    warnings,        \* its local warnings
    ncm_info,        \* its local ncm_info
    lookups,         \* the codes it has asked of the reference table
    status,          \* its local status, "" until line 162
    conclusao,       \* its local conclusao_analise, "" until lines 165-173
    audit_result,    \* its local audit_result after line 181
    banco_de_dados,  \* its local banco_de_dados
    ret,             \* the value it returned
    exc,             \* the exception that left it, "" when none
    db,              \* the file db_documentos.json
    cnpj,            \* a call of validar_cnpj on its own
    calls,           \* the invocations started after an earlier one ended
    historico        \* history: the collection before the first invocation and the
                     \* records of the invocations that returned SUCESSO, in order

vars ==
    <<pc, entrada, issues, warnings, ncm_info, lookups, status, conclusao, audit_result,
      banco_de_dados, ret, exc, db, cnpj, calls, historico>>

NoRet == [status |-> "", text |-> "", arg |-> <<>>]

NoInput == [json_ok |-> FALSE, dados |-> <<>>]

\* The file: absent, empty (size 0), a JSON list of records, or text json.load rejects.
DbAbsent == [state |-> "absent", recs |-> <<>>]

DbEmpty == [state |-> "empty", recs |-> <<>>]

DbList(recs) == [state |-> "list", recs |-> recs]

DbCorrupt == [state |-> "corrupt", recs |-> <<>>]

\* A record persisted by an earlier run.
OldRecord ==
    [status_auditoria |-> "success", erros_auditoria |-> <<>>, avisos_auditoria |-> <<>>,
     conclusao_analise |-> "fixed", numero |-> <<"7">>]

InitialDbs ==
    {DbAbsent, DbEmpty} \cup {DbList([i \in 1..k |-> OldRecord]) : k \in 0..MaxOldRecords}

\* The history when the file is d and no invocation has returned.
HistoricoDe(d) == [inicial |-> d.recs, sucessos |-> <<>>]

CnpjIdle == [pc |-> "off", input |-> <<>>, result |-> FALSE, base |-> <<>>, pos |-> 0]

InitProcs ==
    /\ pc = [p \in Procs |-> "idle"]
    /\ entrada = [p \in Procs |-> NoInput]
    /\ issues = [p \in Procs |-> <<>>]
    /\ warnings = [p \in Procs |-> <<>>]
    /\ ncm_info = [p \in Procs |-> <<>>]
    /\ lookups = [p \in Procs |-> <<>>]
    /\ status = [p \in Procs |-> ""]
    /\ conclusao = [p \in Procs |-> ""]
    /\ audit_result = [p \in Procs |-> <<>>]
    /\ banco_de_dados = [p \in Procs |-> <<>>]
    /\ ret = [p \in Procs |-> NoRet]
    /\ exc = [p \in Procs |-> ""]
    /\ calls = 0

Init ==
    /\ InitProcs
    /\ db = DbAbsent
    /\ historico = HistoricoDe(db)
    /\ cnpj = CnpjIdle

(* ------------------------------- actions ------------------------------ *)

\* A plausible slip: the signal tested by truthiness, dados.get('erro').
tem_erro_por_valor(dados) == Truthy(get(dados, "erro"))

\* 'erro' in dados
tem_erro(dados) == "erro" \in DOMAIN dados

\* Lines 100-103: json.loads raised JSONDecodeError.
InvokeJsonInvalido(p, inputs) ==
    /\ pc[p] = "idle"
    /\ \E inp \in inputs :
        /\ ~inp.json_ok
        /\ entrada' = [entrada EXCEPT ![p] = inp]
    /\ ret' = [ret EXCEPT ![p] =
                  [status |-> "ERRO", text |-> "JSON de entrada invalido", arg |-> <<>>]]
    /\ pc' = [pc EXCEPT ![p] = "returned"]
    /\ UNCHANGED <<issues, warnings, ncm_info, lookups, status, conclusao, audit_result,
                   banco_de_dados, exc, db, cnpj, calls, historico>>

\* Lines 100-107: the record carries the key 'erro'.
InvokeErroExtracao(p, inputs) ==
    /\ pc[p] = "idle"
    /\ \E inp \in inputs :
        /\ inp.json_ok
        /\ tem_erro(inp.dados)
        /\ entrada' = [entrada EXCEPT ![p] = inp]
        /\ ret' = [ret EXCEPT ![p] =
                      [status |-> "ERRO", text |-> "A extracao de dados falhou. Causa raiz",
                       arg |-> inp.dados["erro"]]]
    /\ pc' = [pc EXCEPT ![p] = "returned"]
    /\ UNCHANGED <<issues, warnings, ncm_info, lookups, status, conclusao, audit_result,
                   banco_de_dados, exc, db, cnpj, calls, historico>>

\* Lines 109-162 once the audit r of the record is computed: the locals and the
\* status, or the exception of line 158.
Audita(p, inp, r) ==
    /\ entrada' = [entrada EXCEPT ![p] = inp]
    /\ lookups' = [lookups EXCEPT ![p] = r.acc.lookups]
    /\ IF r.raised
       THEN /\ exc' = [exc EXCEPT ![p] = "InvalidOperation"]
            /\ pc' = [pc EXCEPT ![p] = "raised"]
            /\ UNCHANGED <<issues, warnings, ncm_info, status>>
       ELSE /\ issues' = [issues EXCEPT ![p] = r.acc.issues]
            /\ warnings' = [warnings EXCEPT ![p] = r.acc.warnings]
            /\ ncm_info' = [ncm_info EXCEPT ![p] = r.acc.ncm_info]
            /\ status' = [status EXCEPT ![p] = status_de(r.acc.issues, r.acc.warnings)]
            /\ pc' = [pc EXCEPT ![p] = "audited"]
            /\ UNCHANGED exc
    /\ UNCHANGED <<conclusao, audit_result, banco_de_dados, ret, db, cnpj, calls, historico>>

\* Lines 100-162: the record is audited, to the status derivation or to the
\* InvalidOperation that _to_decimal(valor_total_nota) raises and nothing catches.
InvokeAudita(p, inputs) ==
    /\ pc[p] = "idle"
    /\ \E inp \in inputs :
        /\ inp.json_ok
        /\ ~tem_erro(inp.dados)
        /\ Audita(p, inp, auditar(inp.dados))

\* audit_result = {...}; audit_result.update(dados)  (lines 175-181)
merge_audit(st, iss, warns, concl, dados) ==
    LET base == [status_auditoria |-> st, erros_auditoria |-> iss,
                 avisos_auditoria |-> warns, conclusao_analise |-> concl]
    IN [k \in DOMAIN base \cup DOMAIN dados |->
           IF k \in DOMAIN dados THEN dados[k] ELSE base[k]]

precisa_llm(p) == issues[p] /= <<>> \/ warnings[p] /= <<>> \/ ncm_info[p] /= <<>>

Conclui(p, texto) ==
    /\ conclusao' = [conclusao EXCEPT ![p] = texto]
    /\ audit_result' = [audit_result EXCEPT ![p] =
           merge_audit(status[p], issues[p], warnings[p], texto, entrada[p].dados)]
    /\ pc' = [pc EXCEPT ![p] = "concluded"]
    /\ UNCHANGED <<entrada, issues, warnings, ncm_info, lookups, status, banco_de_dados,
                   ret, exc, db, cnpj, calls, historico>>

\* Lines 165-181: the conclusion comes from the language model.
ConcluiComLLM(p) ==
    /\ pc[p] = "audited"
    /\ precisa_llm(p)
    /\ Conclui(p, "llm")

\* Line 171: the call of the language model raises; nothing catches it.
ConcluiLLMFalha(p) ==
    /\ pc[p] = "audited"
    /\ precisa_llm(p)
    /\ exc' = [exc EXCEPT ![p] = "LLMError"]
    /\ pc' = [pc EXCEPT ![p] = "raised"]
    /\ UNCHANGED <<entrada, issues, warnings, ncm_info, lookups, status, conclusao,
                   audit_result, banco_de_dados, ret, db, cnpj, calls, historico>>

\* Lines 172-181: nothing to report, the fixed conclusion.
ConcluiFixo(p) ==
    /\ pc[p] = "audited"
    /\ ~precisa_llm(p)
    /\ Conclui(p, "fixed")

\* A plausible slip: the list in memory starts empty whatever the file holds.
LeBancoSemLer(p) ==
    /\ pc[p] = "concluded"
    /\ db.state /= "corrupt"
    /\ banco_de_dados' = [banco_de_dados EXCEPT ![p] = <<audit_result[p]>>]
    /\ pc' = [pc EXCEPT ![p] = "loaded"]
    /\ UNCHANGED <<entrada, issues, warnings, ncm_info, lookups, status, conclusao,
                   audit_result, ret, exc, db, cnpj, calls, historico>>

\* Lines 184-188: the file is read, when it exists with a size above 0, and the
\* new record appended to the list in memory.
LeBanco(p) ==
    /\ pc[p] = "concluded"
    /\ db.state /= "corrupt"
    /\ banco_de_dados' = [banco_de_dados EXCEPT ![p] =
           Append(IF db.state = "list" THEN db.recs ELSE <<>>, audit_result[p])]
    /\ pc' = [pc EXCEPT ![p] = "loaded"]
    /\ UNCHANGED <<entrada, issues, warnings, ncm_info, lookups, status, conclusao,
                   audit_result, ret, exc, db, cnpj, calls, historico>>

\* Lines 186-187, 194-195: json.load rejects the file's text; the except clause
\* returns the failure.
LeBancoFalha(p) ==
    /\ pc[p] = "concluded"
    /\ db.state = "corrupt"
    /\ ret' = [ret EXCEPT ![p] =
                  [status |-> "ERRO", text |-> "Falha ao salvar o resultado da auditoria",
                   arg |-> <<>>]]
    /\ pc' = [pc EXCEPT ![p] = "returned"]
    /\ UNCHANGED <<entrada, issues, warnings, ncm_info, lookups, status, conclusao,
                   audit_result, banco_de_dados, exc, db, cnpj, calls, historico>>

\* Line 189: open(..., 'w') truncates the file.
AbreEscrita(p) ==
    /\ pc[p] = "loaded"
    /\ db' = DbEmpty
    /\ pc' = [pc EXCEPT ![p] = "writing"]
    /\ UNCHANGED <<entrada, issues, warnings, ncm_info, lookups, status, conclusao,
                   audit_result, banco_de_dados, ret, exc, cnpj, calls, historico>>

\* Lines 190-192: json.dump and the close of the file write the list from offset
\* 0 of a file still empty, and the invocation returns.
Grava(p) ==
    /\ pc[p] = "writing"
    /\ db.state = "empty"
    /\ db' = DbList(banco_de_dados[p])
    /\ ret' = [ret EXCEPT ![p] = [status |-> "SUCESSO", text |-> conclusao[p], arg |-> <<>>]]
    /\ pc' = [pc EXCEPT ![p] = "returned"]
    /\ historico' = [historico EXCEPT !.sucessos = Append(@, audit_result[p])]
    /\ UNCHANGED <<entrada, issues, warnings, ncm_info, lookups, status, conclusao,
                   audit_result, banco_de_dados, exc, cnpj, calls>>

\* Lines 190-192 when another invocation wrote the file after this one truncated
\* it: this text overwrites the other from offset 0, which leaves this list when
\* it is at least as long as the other text, and otherwise its text followed by
\* the other's tail, which is no JSON.
GravaSobreOutro(p, inteiro) ==
    /\ pc[p] = "writing"
    /\ db.state /= "empty"
    /\ db' = IF inteiro THEN DbList(banco_de_dados[p]) ELSE DbCorrupt
    /\ ret' = [ret EXCEPT ![p] = [status |-> "SUCESSO", text |-> conclusao[p], arg |-> <<>>]]
    /\ pc' = [pc EXCEPT ![p] = "returned"]
    /\ historico' = [historico EXCEPT !.sucessos = Append(@, audit_result[p])]
    /\ UNCHANGED <<entrada, issues, warnings, ncm_info, lookups, status, conclusao,
                   audit_result, banco_de_dados, exc, cnpj, calls>>

\* The invocation of p has ended, by a return or by an exception, and the agent
\* calls the tool again: the locals are those of a fresh call.
NovaChamada(p) ==
    /\ pc[p] \in {"returned", "raised"}
    /\ calls < MaxReinvocacoes
    /\ calls' = calls + 1
    /\ pc' = [pc EXCEPT ![p] = "idle"]
    /\ entrada' = [entrada EXCEPT ![p] = NoInput]
    /\ issues' = [issues EXCEPT ![p] = <<>>]
    /\ warnings' = [warnings EXCEPT ![p] = <<>>]
    /\ ncm_info' = [ncm_info EXCEPT ![p] = <<>>]
    /\ lookups' = [lookups EXCEPT ![p] = <<>>]
    /\ status' = [status EXCEPT ![p] = ""]
    /\ conclusao' = [conclusao EXCEPT ![p] = ""]
    /\ audit_result' = [audit_result EXCEPT ![p] = <<>>]
    /\ banco_de_dados' = [banco_de_dados EXCEPT ![p] = <<>>]
    /\ ret' = [ret EXCEPT ![p] = NoRet]
    /\ exc' = [exc EXCEPT ![p] = ""]
    /\ UNCHANGED <<db, cnpj, historico>>

\* One invocation, on any record of the audit's input space.
Next ==
    \/ InvokeJsonInvalido(1, AuditInputs)
    \/ InvokeErroExtracao(1, AuditInputs)
    \/ InvokeAudita(1, AuditInputs)
    \/ ConcluiComLLM(1)
    \/ ConcluiLLMFalha(1)
    \/ ConcluiFixo(1)
    \/ LeBanco(1)
    \/ AbreEscrita(1)
    \/ Grava(1)

Spec == Init /\ [][Next]_vars

(* --------------------- concurrent invocations ------------------------- *)

\* The records of the concurrent invocations: one per outcome of the audit.
ParInputs ==
    { [json_ok |-> TRUE,
       dados |-> MkDados([NoFields EXCEPT !.numero = <<"4", "2">>, !.emitente_cnpj = CNPJ_OK,
                                          !.valor_total_nota = V_50],
                         TRUE, <<Item(<<"A">>, NCM_5, CFOP_OK, V_50, None)>>)],
      [json_ok |-> TRUE,
       dados |-> MkDados([NoFields EXCEPT !.formato = <<"o", "c", "r", "_", "i", "a">>, !.numero = <<"4", "3">>,
                                          !.emitente_cnpj = CNPJ2_OK,
                                          !.destinatario_cnpj_cpf = CPF_OK,
                                          !.data_emissao = <<"2", "0", "2", "4", "-", "0", "1", "-", "1", "5">>,
                                          !.valor_total_nota = <<"1", "0", "0", ".", "0", "0">>,
                                          !.discriminacao_servicos = <<"s", "e", "r", "v", "i", "c", "o", "s">>],
                         FALSE, <<>>)],
      [json_ok |-> TRUE,
       dados |-> MkDados([NoFields EXCEPT !.numero = <<"4", "4">>, !.emitente_cnpj = CNPJ_RUIM,
                                          !.valor_total_nota = <<"a", "b", "c">>], TRUE, <<>>)],
      [json_ok |-> TRUE, dados |-> MkDados([NoFields EXCEPT !.erro = <<"f", "a", "l", "h", "a">>], FALSE, <<>>)],
      [json_ok |-> FALSE, dados |-> <<>>] }

InitPar ==
    /\ InitProcs
    /\ db \in InitialDbs
    /\ historico = HistoricoDe(db)
    /\ cnpj = CnpjIdle

\* Two invocations running in parallel (two threads or two processes of the
\* agent), interleaved at the calls that leave the interpreter: the language
\* model and the file operations.
NextPar ==
    \E p \in Procs :
        \/ InvokeJsonInvalido(p, ParInputs)
        \/ InvokeErroExtracao(p, ParInputs)
        \/ InvokeAudita(p, ParInputs)
        \/ ConcluiComLLM(p)
        \/ ConcluiLLMFalha(p)
        \/ ConcluiFixo(p)
        \/ LeBanco(p)
        \/ LeBancoFalha(p)
        \/ AbreEscrita(p)
        \/ Grava(p)
        \/ \E inteiro \in BOOLEAN : GravaSobreOutro(p, inteiro)
        \/ NovaChamada(p)

SpecPar == InitPar /\ [][NextPar]_vars

(* --------------------- sequential invocations ------------------------- *)

\* Invocations one after the other, each started when the one before it has
\* ended, from a file that is absent, empty or a list of records.
NextSeq ==
    \/ InvokeJsonInvalido(1, ParInputs)
    \/ InvokeErroExtracao(1, ParInputs)
    \/ InvokeAudita(1, ParInputs)
    \/ ConcluiComLLM(1)
    \/ ConcluiLLMFalha(1)
    \/ ConcluiFixo(1)
    \/ LeBanco(1)
    \/ AbreEscrita(1)
    \/ Grava(1)
    \/ NovaChamada(1)

SpecSeq == InitPar /\ [][NextSeq]_vars

(* ------------------------ validar_cnpj on its own --------------------- *)

\* 14-digit strings around one registration root: the first and the twelfth digit
\* and both check digits range over all digits.
CnpjDigitStrings ==
    { <<a, "1", "2", "2", "2", "3", "3", "3", "0", "0", "0", c, d13, d14>> :
        a \in DigitChars, c \in DigitChars, d13 \in DigitChars, d14 \in DigitChars }

\* Strings of one repeated digit, punctuated and ill-sized strings.
CnpjOtherStrings ==
    { [i \in 1..14 |-> d] : d \in DigitChars }
    \cup { CNPJ_OK, CNPJ2_OK, CNPJ2_RUIM, CPF_OK, <<>>,
           <<"1", "1", "2", "2", "2", "3", "3", "3", "0", "0", "0", "1", "8", "1", "1">>, <<"1", "1", "2", "2", "2", "3", "3", "3", "0", "0", "0", "1", "8">>, <<"1", "1", "2", "2", "2", "3", "3", "3", "0", "0", "0", "x", "8", "1">> }

InitCnpj ==
    /\ InitProcs
    /\ db = DbAbsent
    /\ historico = HistoricoDe(db)
    /\ \E s \in CnpjDigitStrings \cup CnpjOtherStrings :
           cnpj = [pc |-> "input", input |-> s, result |-> FALSE, base |-> <<>>, pos |-> 0]

\* validar_cnpj(input)
ValidaCnpj ==
    /\ cnpj.pc = "input"
    /\ cnpj' = [cnpj EXCEPT !.pc = "validated", !.result = validar_cnpj(cnpj.input)]
    /\ UNCHANGED <<pc, entrada, issues, warnings, ncm_info, lookups, status, conclusao,
                   audit_result, banco_de_dados, ret, exc, db, calls, historico>>

\* validar_cnpj on a 14-digit string with check digit pos (13 or 14) replaced by d.
ValidaPerturbado(pos, d) ==
    /\ cnpj.pc = "validated"
    /\ Len(cnpj.input) = 14
    /\ AllDigits(cnpj.input)
    /\ d /= cnpj.input[pos]
    /\ cnpj' = [pc |-> "perturbed", input |-> [cnpj.input EXCEPT ![pos] = d],
                result |-> validar_cnpj([cnpj.input EXCEPT ![pos] = d]),
                base |-> cnpj.input, pos |-> pos]
    /\ UNCHANGED <<pc, entrada, issues, warnings, ncm_info, lookups, status, conclusao,
                   audit_result, banco_de_dados, ret, exc, db, calls, historico>>

NextCnpj ==
    \/ ValidaCnpj
    \/ \E pos \in {13, 14}, d \in DigitChars : ValidaPerturbado(pos, d)

SpecCnpj == InitCnpj /\ [][NextCnpj]_vars

(* ------------------------------- claims ------------------------------- *)

\* The record of invocation 1, its item list, and where the invocation stands.
Dados1 == entrada[1].dados

Itens1 == get_or(Dados1, "itens", <<>>)

\* Invocation 1 took the structured path (no failed parse, no key 'erro', no OCR format).
Estruturado1 ==
    /\ pc[1] /= "idle"
    /\ entrada[1].json_ok
    /\ "erro" \notin DOMAIN Dados1
    /\ get(Dados1, "formato") \notin OCR_FORMATOS

\* Invocation 1 took the OCR path.
Ocr1 ==
    /\ pc[1] /= "idle"
    /\ entrada[1].json_ok
    /\ "erro" \notin DOMAIN Dados1
    /\ get(Dados1, "formato") \in OCR_FORMATOS

\* Invocation 1 reached the status derivation of line 162.
Derivado1 == status[1] /= ""

\* The list holds an entry with this text about item i (0: about the document).
TemEntrada(list, text, i) ==
    \E k \in 1..Len(list) : list[k].text = text /\ list[k].item = i

TXT_SOMA == "A soma dos itens difere do valor total da nota."

TXT_VALOR == "Contem valor total invalido."

TXT_NCM_AUSENTE == "NCM nao informado."

TXT_NCM_INVALIDO == "NCM e invalido ou nao foi encontrado na Tabela TIPI."

TXT_CFOP == "CFOP nao consta na lista de codigos validos."

TXT_IPI_INVALIDO == "Nao foi possivel validar a aliquota de IPI."

\* The normalised line total of an item and the normalised declared total.
ValorItem(item) == to_decimal(get_or(item, "valor_total", <<"0">>))

TotalNota1 == to_decimal(get_or(Dados1, "valor_total_nota", <<"0">>))

\* The sum of the line totals that parse.
SomaParseavel(items) ==
    LET valor(k) == ValorItem(items[k])
        parcela(v) == IF v.ok THEN v.v ELSE 0
        S[k \in 0..Len(items)] == IF k = 0 THEN 0 ELSE S[k - 1] + parcela(valor(k))
    IN S[Len(items)]

\* C1: whenever the status derivation is reached (OCR or structured path), the
\* status is error iff the errors list is non-empty, warning iff the errors list
\* is empty and the warnings list is not, and success iff both are empty.
C1_StatusFromLists ==
    Derivado1 =>
        /\ status[1] \in {"error", "warning", "success"}
        /\ (status[1] = "error") <=> (issues[1] /= <<>>)
        /\ (status[1] = "warning") <=> (issues[1] = <<>> /\ warnings[1] /= <<>>)
        /\ (status[1] = "success") <=> (issues[1] = <<>> /\ warnings[1] = <<>>)

C1_Witness ==
    /\ Derivado1 /\ Estruturado1
    /\ status[1] = "warning" /\ issues[1] = <<>> /\ Len(warnings[1]) = 2

\* C2: in the structured path no unparseable numeric field aborts the audit: the
\* audit reaches the status derivation, no InvalidOperation leaves the function,
\* and every unparseable line total, declared rate and declared total has become
\* an entry of the lists.
C2_MalformedNeverAborts ==
    Estruturado1 =>
        /\ Derivado1
        /\ exc[1] /= "InvalidOperation"
        /\ \A i \in 1..Len(Itens1) :
               /\ ~ValorItem(Itens1[i]).ok => TemEntrada(issues[1], TXT_VALOR, i)
               /\ ( /\ Truthy(get(Itens1[i], "ncm"))
                    /\ get(Itens1[i], "ncm") \in DOMAIN TIPI
                    /\ get(Itens1[i], "pIPI") /= None
                    /\ ~to_decimal(get(Itens1[i], "pIPI")).ok )
                  => TemEntrada(warnings[1], TXT_IPI_INVALIDO, i)
        /\ ~TotalNota1.ok => issues[1] /= <<>>

\* C3: a record with the key 'erro' makes the invocation return at once an ERRO
\* result wrapping the reason: no rule ran (no entry in any list, no lookup in the
\* reference table, no status), nothing was raised and nothing was persisted,
\* whatever else the record holds.
C3_ErroShortCircuits ==
    (pc[1] /= "idle" /\ entrada[1].json_ok /\ "erro" \in DOMAIN Dados1) =>
        /\ pc[1] = "returned"
        /\ ret[1] = [status |-> "ERRO", text |-> "A extracao de dados falhou. Causa raiz",
                     arg |-> Dados1["erro"]]
        /\ issues[1] = <<>> /\ warnings[1] = <<>> /\ ncm_info[1] = <<>>
        /\ lookups[1] = <<>>
        /\ status[1] = ""
        /\ exc[1] = ""
        /\ db = DbAbsent

C3_Witness ==
    /\ pc[1] = "returned" /\ entrada[1].json_ok
    /\ "erro" \in DOMAIN Dados1
    /\ Len(Itens1) = 1 /\ get(Itens1[1], "ncm") = NCM_DESCONHECIDO
    /\ ~TotalNota1.ok
    /\ ret[1].status = "ERRO"

\* The rule of C4 for a sum of line totals and a declared total.
C4_Regra(soma, total) ==
    /\ TemEntrada(issues[1], TXT_SOMA, 0) <=> (Abs(soma - total) > Tolerance)
    /\ (soma = 100 * Scale /\ total = 100 * Scale + Tolerance)
           => ~TemEntrada(issues[1], TXT_SOMA, 0)
    /\ (soma = 100 * Scale /\ total = 100 * Scale + 2 * Tolerance)
           => TemEntrada(issues[1], TXT_SOMA, 0)

\* C4: in the structured path the sum-reconciliation error is among the errors
\* iff the sum of the parseable line totals and the normalised declared total
\* differ by strictly more than 0.01: items summing to 100.00 get no such error
\* with a declared total of 100.01 and get it with 100.02.
C4_SumReconciliation ==
    (Derivado1 /\ Estruturado1) => C4_Regra(SomaParseavel(Itens1), TotalNota1.v)

C4_Witness ==
    /\ Derivado1 /\ Estruturado1
    /\ Len(Itens1) = 2
    /\ SomaParseavel(Itens1) = 100 * Scale
    /\ TotalNota1.v = 100 * Scale + Tolerance
    /\ ~TemEntrada(issues[1], TXT_SOMA, 0)

\* The case of C5: number and issuer present, issuer checksum valid, every item
\* with a classification code of the reference table, a transaction code of the
\* allow-list and a parseable line total, and the sum equal to the declared total.
C5_Caso ==
    /\ Derivado1 /\ Estruturado1
    /\ Truthy(get(Dados1, "numero"))
    /\ Truthy(get(Dados1, "emitente_cnpj"))
    /\ validar_cnpj(get(Dados1, "emitente_cnpj"))
    /\ \A i \in 1..Len(Itens1) :
           /\ Truthy(get(Itens1[i], "ncm"))
           /\ get(Itens1[i], "ncm") \in DOMAIN TIPI
           /\ get(Itens1[i], "cfop") \in VALID_CFOP_CODES
           /\ ValorItem(Itens1[i]).ok
    /\ TotalNota1.ok
    /\ SomaParseavel(Itens1) = TotalNota1.v

\* An item declares no rate, or one that normalises to the reference table's rate.
AliquotaConfere(item) ==
    \/ get(item, "pIPI") = None
    \/ /\ to_decimal(get(item, "pIPI")).ok
       /\ to_decimal(TIPI[item["ncm"]]).ok
       /\ to_decimal(get(item, "pIPI")).v = to_decimal(TIPI[item["ncm"]]).v

\* C5 as stated: the case of C5 yields success with no error and no warning.
C5_Original ==
    C5_Caso => (status[1] = "success" /\ issues[1] = <<>> /\ warnings[1] = <<>>)

\* C5 amended: the case of C5 with at least one item and no declared rate that
\* differs from the reference rate yields success with no error and no warning.
C5_CleanRecordSucceeds ==
    (C5_Caso /\ Itens1 /= <<>> /\ \A i \in 1..Len(Itens1) : AliquotaConfere(Itens1[i]))
        => (status[1] = "success" /\ issues[1] = <<>> /\ warnings[1] = <<>>)

C5_Witness ==
    /\ C5_Caso
    /\ Len(Itens1) = 2
    /\ \A i \in 1..Len(Itens1) : AliquotaConfere(Itens1[i])
    /\ get(Itens1[2], "pIPI") /= None
    /\ status[1] = "success"

\* C6: a structured record with an item whose classification code is present and
\* not in the reference table yields status error, whatever else it holds.
C6_UnknownNcmIsError ==
    ( /\ Estruturado1
      /\ \E i \in 1..Len(Itens1) :
             Truthy(get(Itens1[i], "ncm")) /\ get(Itens1[i], "ncm") \notin DOMAIN TIPI )
        => status[1] = "error"

\* Where an entry stands in the order of the audit: the document-level checks,
\* the items in order, the sum reconciliation.
Ordem(e) == IF e.text = TXT_SOMA THEN Len(Itens1) + 1 ELSE e.item

EmOrdem(list) ==
    \A k \in 1..Len(list), m \in 1..Len(list) : k < m => Ordem(list[k]) <= Ordem(list[m])

\* The classification codes the items carry, in item order.
NcmsInformados ==
    LET com == SelectSeq(Itens1, LAMBDA it : Truthy(get(it, "ncm")))
    IN [k \in 1..Len(com) |-> com[k]["ncm"]]

\* C9: in the structured path every item is checked whatever came before it: each
\* code carried is looked up, each missing or unknown code, each transaction code
\* outside the allow-list and each unparseable line total has its entry, and both
\* lists are in item order with the sum-reconciliation error last.
C9_EveryItemCheckedInOrder ==
    /\ Estruturado1 => lookups[1] = NcmsInformados
    /\ (Derivado1 /\ Estruturado1) =>
        /\ \A i \in 1..Len(Itens1) :
            /\ TemEntrada(issues[1], TXT_NCM_AUSENTE, i) <=> ~Truthy(get(Itens1[i], "ncm"))
            /\ TemEntrada(issues[1], TXT_NCM_INVALIDO, i)
                   <=> ( /\ Truthy(get(Itens1[i], "ncm"))
                         /\ get(Itens1[i], "ncm") \notin DOMAIN TIPI )
            /\ TemEntrada(warnings[1], TXT_CFOP, i)
                   <=> (get(Itens1[i], "cfop") \notin VALID_CFOP_CODES)
            /\ TemEntrada(issues[1], TXT_VALOR, i) <=> ~ValorItem(Itens1[i]).ok
        /\ EmOrdem(issues[1])
        /\ EmOrdem(warnings[1])
        /\ \A k \in 1..Len(issues[1]) : issues[1][k].text = TXT_SOMA => k = Len(issues[1])

C9_Witness ==
    /\ Derivado1 /\ Estruturado1
    /\ Len(Itens1) = 2
    /\ Len(issues[1]) = 5
    /\ issues[1][1].item = 0
    /\ TemEntrada(issues[1], TXT_NCM_INVALIDO, 1)
    /\ TemEntrada(issues[1], TXT_VALOR, 1)
    /\ TemEntrada(issues[1], TXT_NCM_AUSENTE, 2)
    /\ TemEntrada(warnings[1], TXT_CFOP, 1)
    /\ issues[1][5].text = TXT_SOMA

\* The recipient ID is valid: as an organization ID when it has more than 11
\* digits, as an individual ID otherwise.
DestinatarioValido(doc) ==
    IF Len(only_digits(doc)) > 11 THEN validar_cnpj(doc) ELSE validar_cpf(doc)

\* The case of C10: an OCR record missing only the issue date.
C10_Caso ==
    /\ Derivado1 /\ Ocr1
    /\ Truthy(get(Dados1, "emitente_cnpj")) /\ validar_cnpj(get(Dados1, "emitente_cnpj"))
    /\ Truthy(get(Dados1, "destinatario_cnpj_cpf"))
    /\ DestinatarioValido(get(Dados1, "destinatario_cnpj_cpf"))
    /\ Truthy(get(Dados1, "numero"))
    /\ Truthy(get(Dados1, "valor_total_nota"))
    /\ Truthy(get(Dados1, "discriminacao_servicos"))
    /\ ~Truthy(get(Dados1, "data_emissao"))

\* C10: an OCR record (ocr or ocr_ia) missing only the issue date yields status
\* warning with exactly one warning and no error.
C10_OcrMissingDateWarns ==
    C10_Caso => (status[1] = "warning" /\ Len(warnings[1]) = 1 /\ Len(issues[1]) = 0)

C10_Witness ==
    /\ C10_Caso
    /\ get(Dados1, "formato") = <<"o", "c", "r", "_", "i", "a">>
    /\ get(Dados1, "destinatario_cnpj_cpf") = CNPJ2_OK
    /\ status[1] = "warning"

\* The case of C11: a structured record with a document number, a valid issuer
\* ID and no item (the list empty or absent).
C11_Caso ==
    /\ Estruturado1
    /\ Truthy(get(Dados1, "numero"))
    /\ Truthy(get(Dados1, "emitente_cnpj"))
    /\ validar_cnpj(get(Dados1, "emitente_cnpj"))
    /\ Itens1 = <<>>

\* The audit ended with the warning for the empty list as its only entry.
C11_SoAviso ==
    /\ Derivado1
    /\ issues[1] = <<>>
    /\ Len(warnings[1]) = 1
    /\ warnings[1][1].text = "O documento nao contem itens."

\* C11 as stated: the case of C11 gets exactly one warning, for the empty list,
\* and no error entry, whatever the declared total is.
C11_Original == C11_Caso => C11_SoAviso

\* C11 amended: the case of C11 with a declared total that is absent or normalises
\* to a value within 0.01 of zero gets exactly one warning, for the empty list,
\* and no error entry.
C11_EmptyListWarns ==
    (C11_Caso /\ TotalNota1.ok /\ Abs(TotalNota1.v) <= Tolerance) => C11_SoAviso

C11_Witness ==
    /\ C11_Caso
    /\ "itens" \in DOMAIN Dados1
    /\ get(Dados1, "valor_total_nota") = <<"0", ".", "0", "1">>
    /\ status[1] = "warning"
    /\ C11_SoAviso

\* The check digit the mod-11 rule gives for the first n digits of s.
C7_DV(s, pesos, n) ==
    LET S[k \in 0..n] == IF k = 0 THEN 0 ELSE S[k - 1] + int(s[k]) * pesos[k]
    IN IF S[n] % 11 < 2 THEN 0 ELSE 11 - (S[n] % 11)

\* s is 14 digits, not all identical, with both check digits as the rule gives them.
C7_BemFormado(s) ==
    /\ Len(s) = 14
    /\ \A i \in 1..14 : s[i] \in DigitChars
    /\ \E i \in 1..14 : s[i] /= s[1]
    /\ int(s[13]) = C7_DV(s, <<5, 4, 3, 2, 9, 8, 7, 6, 5, 4, 3, 2>>, 12)
    /\ int(s[14]) = C7_DV(s, <<6, 5, 4, 3, 2, 9, 8, 7, 6, 5, 4, 3, 2>>, 13)

\* C7: validar_cnpj returns true for every string of 14 digits, not all identical,
\* whose digits 13 and 14 are the two mod-11 check digits, and false once digit 13
\* or digit 14 of such a string is replaced by another digit.
C7_CnpjCheckDigits ==
    /\ (cnpj.pc = "validated" /\ C7_BemFormado(cnpj.input)) => cnpj.result
    /\ (cnpj.pc = "perturbed" /\ C7_BemFormado(cnpj.base)) => ~cnpj.result

C7_Witness ==
    /\ cnpj.pc = "perturbed"
    /\ C7_BemFormado(cnpj.base)
    /\ cnpj.base[13] = "0"
    /\ cnpj.pos = 14
    /\ ~cnpj.result

\* C8: two invocations on distinct records running in parallel end as they would
\* one after the other: when both have returned SUCESSO the file is the list and
\* holds the record of each, none lost.
C8_ParallelKeepsBoth ==
    ( /\ calls = 0
      /\ \A p \in Procs : pc[p] = "returned" /\ ret[p].status = "SUCESSO"
      /\ entrada[1] /= entrada[2] )
        => /\ db.state = "list"
           /\ \A p \in Procs : \E i \in 1..Len(db.recs) : db.recs[i] = audit_result[p]

\* The records the file holds as a collection: none when it is absent or empty.
Colecao(d) == IF d.state = "list" THEN d.recs ELSE <<>>

\* No invocation is in progress: none started yet, or the last one has ended.
EntreChamadas == pc[1] \in {"idle", "returned", "raised"}

\* C12: after any sequence of sequential invocations from an absent, empty or
\* well-formed file, the file holds the records it held before, unchanged and in
\* their positions, followed by exactly one record for each invocation that
\* returned SUCESSO, in invocation order; an invocation that returned without
\* SUCESSO (invalid JSON, extraction-failure signal) or raised added nothing.
C12_SequentialAppendOnly ==
    EntreChamadas =>
        /\ db.state /= "corrupt"
        /\ Colecao(db) = historico.inicial \o historico.sucessos
        /\ (pc[1] = "returned" /\ ret[1].status = "SUCESSO")
               => ( /\ historico.sucessos /= <<>>
                    /\ Colecao(db)[Len(Colecao(db))] = audit_result[1] )
        /\ (pc[1] = "returned" /\ ret[1].status /= "SUCESSO")
               => audit_result[1] = <<>>

C12_Witness ==
    /\ calls = MaxReinvocacoes
    /\ pc[1] = "returned" /\ ret[1].status = "SUCESSO"
    /\ Len(historico.inicial) = 1
    /\ Len(historico.sucessos) = MaxReinvocacoes + 1
    /\ Len(Colecao(db)) = MaxReinvocacoes + 2
    /\ Colecao(db)[1] = OldRecord

\* An invocation that short-circuited after an earlier one was persisted.
C12_WitnessErro ==
    /\ calls = 1
    /\ pc[1] = "returned" /\ ret[1].status = "ERRO"
    /\ Len(historico.sucessos) = 1
    /\ Len(Colecao(db)) = Len(historico.inicial) + 1

\* The record the invocation of 1 wrote: the last of the file.
Persistido1 == db.recs[Len(db.recs)]

\* C13: in every record the audit persists, status_auditoria, erros_auditoria and
\* avisos_auditoria are the status, the errors list and the warnings list that
\* the audit of that invocation computed, also when the input record itself
\* holds keys of these names.
C13_PersistedMatchesAudit ==
    (pc[1] = "returned" /\ ret[1].status = "SUCESSO") =>
        /\ db.state = "list" /\ db.recs /= <<>>
        /\ Persistido1["status_auditoria"] = status[1]
        /\ Persistido1["erros_auditoria"] = issues[1]
        /\ Persistido1["avisos_auditoria"] = warnings[1]

====
